---- MODULE Spec2Model ----
(***************************************************************************)
(* A model of the media-archiving pipeline of axlott/timestamper:          *)
(* main.py runs the Timestamper (timestamper.py), the Reporter             *)
(* (reporter.py) and the Document Creator (doc_creator.py) over a source   *)
(* folder and an output folder.                                            *)
(*                                                                         *)
(* A file name is a sequence of tokens, e.g. <<"a", ".", "JPG">>; the      *)
(* name functions of the code (str.lower, str.endswith, os.path.splitext,  *)
(* str(i)) are computed on these sequences.                                *)
(***************************************************************************)
EXTENDS Integers, Sequences, FiniteSets, TLC

\* ------------------------------------------------------------------ bounds
\* The longest directory listing of the source folder.
MaxFiles == 2
\* The most frames a video decodes to, and the largest batch size.
MaxFrames == 4
MaxBatch == 3
\* The longest DateTimeOriginal value, in tokens.
MaxDtoLen == 5
\* DMS numerators are 0..MaxDmsNum and 40, denominators 1..MaxDmsDen and -1
MaxDmsNum == 2
MaxDmsDen == 2
\* image widths are 1..MaxSide
MaxSide == 1500
\* the clock ticks up to MaxClock; at most MaxCalls geocoding calls are made
MaxClock == 3
MaxCalls == 3

\* ------------------------------------------------------- file-name algebra
\* str.lower() on one token.
Lower(tok) ==
    CASE tok = "JPG" -> "jpg"
      [] OTHER -> tok

LowerName(n) == [i \in DOMAIN n |-> Lower(n[i])]

\* str.endswith(tuple of ".ext" suffixes): exts holds the extensions.
EndsWith(n, exts) ==
    /\ Len(n) >= 2
    /\ n[Len(n) - 1] = "."
    /\ n[Len(n)] \in exts

\* os.path.splitext(n)[0]: the part before the last dot, a leading dot
\* not counting as an extension separator.
SplitextStem(n) ==
    LET dots == {i \in 2..Len(n) : n[i] = "."}
    IN  IF dots = {} THEN n
        ELSE LET last == CHOOSE i \in dots : \A j \in dots : j <= i
             IN  SubSeq(n, 1, last - 1)

Digits == <<"0", "1", "2", "3", "4", "5", "6", "7", "8", "9">>

\* str(i) for i >= 0, as a sequence of digit tokens.
RECURSIVE DecStr(_)
DecStr(i) ==
    IF i < 10 THEN <<Digits[i + 1]>>
    ELSE DecStr(i \div 10) \o <<Digits[(i % 10) + 1]>>

SupportedImages == {"heic", "png", "jpg", "jpeg"}
SupportedVideos == {"mov", "mp4"}
ReporterImages == {"png", "jpg", "jpeg", "heic"}
DocVideoExts == {"mov", "mp4"}

IsImageName(n) == EndsWith(LowerName(n), SupportedImages)
IsVideoName(n) == EndsWith(LowerName(n), SupportedVideos)

\* timestamp_video's output file name: stem + ".mp4", no existence check.
VideoOutputName(n) == SplitextStem(n) \o <<".", "mp4">>

\* The Reporter's key of a source file: stem + ".png".
ProcessedFilename(n) == SplitextStem(n) \o <<".", "png">>

\* ------------------------------------------------------------ the folders
\* The names a source folder may list.
SourceNames ==
    { <<"a", ".", "JPG">>, <<"a", ".", "png">>, <<"a", "1", ".", "png">>,
      <<"a", ".", "mov">>, <<"a", ".", "mp4">>, <<"n", ".", "txt">> }

\* What may go wrong with one source file:
\*   ok       nothing
\*   corrupt  the file cannot be decoded (Image.open / read_heif raise,
\*            VideoCapture does not open)
\*   dumpfail an image decodes, but piexif.dump of its EXIF raises
\*   midfail  a video opens, but decoding or encoding raises after the
\*            VideoWriter was created
\*   nodate   get_creation_date returns None
FaultsOf(n) ==
    IF IsImageName(n) THEN {"ok", "corrupt", "dumpfail", "nodate"}
    ELSE IF IsVideoName(n) THEN {"ok", "corrupt", "midfail", "nodate"}
    ELSE {"ok"}

\* An entry of the output folder. origin: "old" (left by an earlier run),
\* "ts" (Timestamper), "reporter"; src: the source file it renders.
Entry(name, kind, origin, src, locked) ==
    [name |-> name, kind |-> kind, origin |-> origin, src |-> src,
     locked |-> locked]

JsonName == <<"metadata_report", ".", "json">>
TxtName == <<"metadata_report", ".", "txt">>

\* What an earlier run or the user may have left in the output folder.
OldOutputs ==
    { {},
      {Entry(<<"a", ".", "png">>, "file", "old", <<>>, FALSE),
       Entry(JsonName, "file", "old", <<>>, FALSE)},
      {Entry(<<"a", ".", "png">>, "file", "old", <<>>, TRUE)},
      {Entry(<<"a", ".", "png">>, "dir", "old", <<>>, FALSE)} }

VARIABLES
    pc,         \* main.py's position
    srcExists,  \* the source folder exists
    listing,    \* os.listdir(source_folder), in its order
    fault,      \* listing index -> what goes wrong with that file
    outExists,  \* the output folder exists
    out,        \* the output folder's entries
    idx,        \* the folder walk's position in listing
    rendered,   \* the files written by the Timestamper, in order
    log,        \* the console messages
    report,     \* all_photo_data: <<key, record>> in insertion order
    jsonData,   \* the content of metadata_report.json
    loaded,     \* metadata_dict of the Document Creator
    di,         \* the Document Creator's position in loaded
    pages,      \* the pages added to the document
    saved,      \* document.save was attempted
    crashAt     \* where an exception left main.py, or "none"

pipeVars == <<pc, srcExists, listing, fault, outExists, out, idx, rendered,
              log, report, jsonData, loaded, di, pages, saved, crashAt>>

\* timestamp_video's frame loop (lines 74-99 of timestamper.py)
VARIABLES
    vpc,          \* the loop's position
    batch_size,   \* MAX_PHOTOGRAMS_PER_BATCH
    total,        \* the number of frames the input decodes to
    nread,        \* frames returned by cap.read() so far
    frames_batch, \* the frames of the current batch
    tasks,        \* executor.map's tasks: task -> progress of its worker
    yielded,      \* the tasks whose result the map iterator has yielded
    written,      \* the frames given to out.write, in order
    overtook      \* some worker finished before one started earlier

vidVars == <<vpc, batch_size, total, nread, frames_batch, tasks, yielded,
             written, overtook>>

\* One call of get_creation_date (meta_reader.py)
VARIABLES
    mpc,        \* "call", then "returned" or "raised"
    kind,       \* the file's extension class: "video", "heic", "image"
    videoMeta,  \* hachoir: "raises", "none" (no creation_date), "date"
    exifLoad,   \* opening the image and loading its EXIF: "raises",
                \* "none" (no EXIF), "nodto" (no DateTimeOriginal), "dto"
    dto,        \* the bytes of DateTimeOriginal, as tokens
    mtimeOK,    \* os.path.getmtime succeeds
    result      \* what the call returned

metaVars == <<mpc, kind, videoMeta, exifLoad, dto, mtimeOK, result>>

\* The Reporter's extraction of one image's record (reporter.py 58-165)
VARIABLES
    epc,        \* "file", then "recorded"
    present,    \* the EXIF tags the file carries
    exif,       \* tag -> its value (read only for the tags present)
    geo,        \* the reverse geocoder: "address", "none", "raises"
    record      \* the MediaRecord built

exifVars == <<epc, present, exif, geo, record>>

\* Calls of dms_to_dd on one DMS triple (reporter.py 15-23)
VARIABLES
    gps_dms,    \* the triple of rationals read from the GPS tag
    dd_of       \* reference letter -> the value returned for it, <<>> before

dmsVars == <<gps_dms, dd_of>>

\* timestamp_image's choice of the font size (timestamper.py 126-127)
VARIABLES
    image_width,   \* image.width
    image_height,  \* image.height
    font_size      \* the size computed, 0 before

fontVars == <<image_width, image_height, font_size>>

\* The reverse-geocoding calls of one process (get_addr.py, reporter.py)
VARIABLES
    clock,      \* the time, in seconds
    last_call,  \* when the Reporter's RateLimiter last let a call through
    sent,       \* the times of the requests sent, in order
    answers     \* what each geocoding call gave its caller, in order

geoVars == <<clock, last_call, sent, answers>>

otherThanPipe == <<vidVars, metaVars, exifVars, dmsVars, fontVars, geoVars>>
otherThanVid == <<pipeVars, metaVars, exifVars, dmsVars, fontVars, geoVars>>
otherThanMeta == <<pipeVars, vidVars, exifVars, dmsVars, fontVars, geoVars>>
otherThanExif == <<pipeVars, vidVars, metaVars, dmsVars, fontVars, geoVars>>
otherThanDms == <<pipeVars, vidVars, metaVars, exifVars, fontVars, geoVars>>
otherThanFont == <<pipeVars, vidVars, metaVars, exifVars, dmsVars, geoVars>>
otherThanGeo == <<pipeVars, vidVars, metaVars, exifVars, dmsVars, fontVars>>

vars == <<pipeVars, vidVars, metaVars, exifVars, dmsVars, fontVars, geoVars>>

Names(entries) == {e.name : e \in entries}

\* os.path.exists(os.path.join(folder, name))
PathExists(entries, name) == name \in Names(entries)

\* Writing a regular file over whatever regular file has that name.
WriteFile(entries, e) == {x \in entries : x.name # e.name} \cup {e}

RECURSIVE Listings(_)
Listings(k) ==
    IF k = 0 THEN {<<>>}
    ELSE LET shorter == Listings(k - 1)
         IN  shorter \cup
             {Append(s, n) : s \in {t \in shorter : Len(t) = k - 1},
                             n \in SourceNames}

DistinctNames(s) == \A i, j \in DOMAIN s : i # j => s[i] # s[j]

PipeInit ==
    /\ pc = "start"
    /\ srcExists \in BOOLEAN
    /\ listing \in {s \in Listings(MaxFiles) : DistinctNames(s)}
    /\ (~srcExists => listing = <<>>)
    /\ fault \in [DOMAIN listing -> {"ok", "corrupt", "dumpfail", "midfail", "nodate"}]
    /\ \A i \in DOMAIN listing : fault[i] \in FaultsOf(listing[i])
    /\ outExists \in BOOLEAN
    /\ out \in OldOutputs
    /\ (~outExists => out = {})
    /\ idx = 0
    /\ rendered = <<>>
    /\ log = <<>>
    /\ report = <<>>
    /\ jsonData = <<>>
    /\ loaded = <<>>
    /\ di = 0
    /\ pages = <<>>
    /\ saved = FALSE
    /\ crashAt = "none"

VidIdle ==
    /\ vpc = "idle"
    /\ batch_size = 1
    /\ total = 0
    /\ nread = 0
    /\ frames_batch = <<>>
    /\ tasks = <<>>
    /\ yielded = {}
    /\ written = <<>>
    /\ overtook = FALSE

MetaIdle ==
    /\ mpc = "idle"
    /\ kind = "image"
    /\ videoMeta = "none"
    /\ exifLoad = "none"
    /\ dto = <<>>
    /\ mtimeOK = TRUE
    /\ result = <<>>

ExifIdle ==
    /\ epc = "idle"
    /\ present = {}
    /\ exif = <<>>
    /\ geo = "none"
    /\ record = <<>>

DmsIdle ==
    /\ gps_dms = <<>>
    /\ dd_of = <<>>

FontIdle ==
    /\ image_width = 0
    /\ image_height = 0
    /\ font_size = 0

GeoIdle ==
    /\ clock = 0
    /\ last_call = -1
    /\ sent = <<>>
    /\ answers = <<>>

\* The variable groups a specification leaves idle.
IdleButPipe == VidIdle /\ MetaIdle /\ ExifIdle /\ DmsIdle /\ FontIdle /\ GeoIdle

\* ------------------------------------------------------------ Timestamper
\* folder_clearer: removes the regular files it can remove; directories
\* stay, and a failed os.remove is printed and passed over.
Cleared(entries) ==
    {e \in entries : ~(e.kind = "file" /\ ~e.locked)}

folder_clearer ==
    /\ pc = "start"
    /\ out' = (IF outExists THEN Cleared(out) ELSE out)
    /\ log' = log \o [i \in 1..Cardinality({e \in out : e.kind = "file" /\ e.locked})
                        |-> <<"Failed to delete">>]
    /\ pc' = "ts_check"
    /\ UNCHANGED <<srcExists, listing, fault, outExists, idx, rendered,
                   report, jsonData, loaded, di, pages, saved, crashAt>>
    /\ UNCHANGED otherThanPipe

process_folder_source_missing ==
    /\ pc = "ts_check"
    /\ ~srcExists
    /\ log' = Append(log, <<"Error: Source folder not found">>)
    /\ pc' = "report"
    /\ UNCHANGED <<srcExists, listing, fault, outExists, out, idx, rendered,
                   report, jsonData, loaded, di, pages, saved, crashAt>>
    /\ UNCHANGED otherThanPipe

\* os.makedirs(output_folder, exist_ok=True), then the walk starts.
process_folder_makedirs ==
    /\ pc = "ts_check"
    /\ srcExists
    /\ outExists' = TRUE
    /\ idx' = 1
    /\ pc' = "ts_walk"
    /\ UNCHANGED <<srcExists, listing, fault, out, rendered, log,
                   report, jsonData, loaded, di, pages, saved, crashAt>>
    /\ UNCHANGED otherThanPipe

\* timestamp_image's search for a free name: stem.png, stem1.png, ...
RECURSIVE FreeImageNameFrom(_, _, _)
FreeImageNameFrom(entries, stem, i) ==
    LET cand == IF i = 0 THEN stem \o <<".", "png">>
                ELSE stem \o DecStr(i) \o <<".", "png">>
    IN  IF PathExists(entries, cand)
        THEN FreeImageNameFrom(entries, stem, i + 1)
        ELSE cand

FreeImageName(entries, n) == FreeImageNameFrom(entries, SplitextStem(n), 0)

\* ImageExceptHandler without the except clause: the exception leaves
\* timestamp_image and the walk.
ImageExceptPropagates(n) ==
    /\ log' = log
    /\ pc' = "crashed"
    /\ crashAt' = "ts_file"
    /\ idx' = idx

\* timestamp_image's "except Exception as e: print(...)": the function
\* returns and the walk goes on with the next file.
ImageExceptHandler(n) ==
    /\ log' = Append(log, <<"Failed to process", n>>)
    /\ pc' = "ts_walk"
    /\ crashAt' = crashAt
    /\ idx' = idx + 1

timestamp_image ==
    /\ pc = "ts_walk"
    /\ idx \in DOMAIN listing
    /\ IsImageName(listing[idx])
    /\ LET n == listing[idx]
       IN  CASE fault[idx] = "nodate" ->
                  /\ log' = Append(log, <<"Skipping: No creation date", n>>)
                  /\ idx' = idx + 1
                  /\ UNCHANGED <<pc, crashAt, out, rendered>>
             [] fault[idx] \in {"corrupt", "dumpfail"} ->
                  /\ ImageExceptHandler(n)
                  /\ UNCHANGED <<out, rendered>>
             [] OTHER ->
                  LET final == FreeImageName(out, n)
                  IN  /\ out' = WriteFile(out, Entry(final, "file", "ts", n, FALSE))
                      /\ rendered' = Append(rendered, [src |-> n, name |-> final])
                      /\ log' = Append(log, <<"Successfully timestamped", final>>)
                      /\ idx' = idx + 1
                      /\ UNCHANGED <<pc, crashAt>>
    /\ UNCHANGED <<srcExists, listing, fault, outExists,
                   report, jsonData, loaded, di, pages, saved>>
    /\ UNCHANGED otherThanPipe

\* timestamp_video, the frame loop taken as one step (see read_frame and
\* the actions after it for the loop itself).
timestamp_video ==
    /\ pc = "ts_walk"
    /\ idx \in DOMAIN listing
    /\ ~IsImageName(listing[idx])
    /\ IsVideoName(listing[idx])
    /\ LET n == listing[idx]
           final == VideoOutputName(n)
       IN  CASE fault[idx] = "nodate" ->
                  /\ log' = Append(log, <<"Skipping video: No creation date", n>>)
                  /\ UNCHANGED <<out, rendered>>
             [] fault[idx] = "corrupt" ->
                  /\ log' = Append(log, <<"Error: Could not open video file", n>>)
                  /\ UNCHANGED <<out, rendered>>
             [] fault[idx] = "midfail" ->
                  \* cv2.VideoWriter has created the file already
                  /\ out' = WriteFile(out, Entry(final, "file", "ts", n, FALSE))
                  /\ rendered' = Append(rendered, [src |-> n, name |-> final])
                  /\ log' = Append(log, <<"Failed to process video", n>>)
             [] OTHER ->
                  /\ out' = WriteFile(out, Entry(final, "file", "ts", n, FALSE))
                  /\ rendered' = Append(rendered, [src |-> n, name |-> final])
                  /\ log' = Append(log, <<"Successfully timestamped video", final>>)
    /\ idx' = idx + 1
    /\ UNCHANGED <<pc, srcExists, listing, fault, outExists,
                   report, jsonData, loaded, di, pages, saved, crashAt>>
    /\ UNCHANGED otherThanPipe

\* A file that is neither a supported image nor a supported video.
process_folder_skip ==
    /\ pc = "ts_walk"
    /\ idx \in DOMAIN listing
    /\ ~IsImageName(listing[idx])
    /\ ~IsVideoName(listing[idx])
    /\ idx' = idx + 1
    /\ UNCHANGED <<pc, srcExists, listing, fault, outExists, out, rendered, log,
                   report, jsonData, loaded, di, pages, saved, crashAt>>
    /\ UNCHANGED otherThanPipe

process_folder_done ==
    /\ pc = "ts_walk"
    /\ idx > Len(listing)
    /\ log' = Append(log, <<"Media Timestamping Complete">>)
    /\ pc' = "report"
    /\ UNCHANGED <<srcExists, listing, fault, outExists, out, idx, rendered,
                   report, jsonData, loaded, di, pages, saved, crashAt>>
    /\ UNCHANGED otherThanPipe

\* --------------------------------------------------------------- Reporter
\* os.listdir(source_folder) on a folder that does not exist raises
\* FileNotFoundError; nothing in generate_metadata_report or main catches it.
generate_report_listdir_raises ==
    /\ pc = "report"
    /\ ~srcExists
    /\ pc' = "crashed"
    /\ crashAt' = "rep_listdir"
    /\ UNCHANGED <<srcExists, listing, fault, outExists, out, idx, rendered, log,
                   report, jsonData, loaded, di, pages, saved>>
    /\ UNCHANGED otherThanPipe

generate_report_start ==
    /\ pc = "report"
    /\ srcExists
    /\ report' = <<>>
    /\ idx' = 1
    /\ pc' = "rep_walk"
    /\ UNCHANGED <<srcExists, listing, fault, outExists, out, rendered, log,
                   jsonData, loaded, di, pages, saved, crashAt>>
    /\ UNCHANGED otherThanPipe

\* all_photo_data[key] = rec: a new key goes last, a known key keeps its
\* place and takes the new value.
PutRecord(rep, key, rec) ==
    IF \E i \in DOMAIN rep : rep[i][1] = key
    THEN [i \in DOMAIN rep |-> IF rep[i][1] = key THEN <<key, rec>> ELSE rep[i]]
    ELSE Append(rep, <<key, rec>>)

\* The fields of a MediaRecord that the pipeline reads again (the EXIF
\* fields are modelled by ExifRecord below).
MediaRecord(n, flt) ==
    [OriginalFileName |-> n,
     Timestamp |-> IF flt = "nodate" THEN "NULL" ELSE "date",
     People |-> "NULL"]

\* The "continue" of line 40: only the four image extensions pass.
ReporterTakes(n) == EndsWith(LowerName(n), ReporterImages)

generate_report_skip ==
    /\ pc = "rep_walk"
    /\ idx \in DOMAIN listing
    /\ ~ReporterTakes(listing[idx])
    /\ idx' = idx + 1
    /\ UNCHANGED <<pc, srcExists, listing, fault, outExists, out, rendered, log,
                   report, jsonData, loaded, di, pages, saved, crashAt>>
    /\ UNCHANGED otherThanPipe

generate_report_file ==
    /\ pc = "rep_walk"
    /\ idx \in DOMAIN listing
    /\ ReporterTakes(listing[idx])
    /\ LET n == listing[idx]
       IN  IF fault[idx] = "corrupt"
           THEN /\ log' = Append(log, <<"Could not process metadata for", n>>)
                /\ report' = report
           ELSE /\ report' = PutRecord(report, ProcessedFilename(n),
                                       MediaRecord(n, fault[idx]))
                /\ log' = Append(log, <<"Processed metadata for", n>>)
    /\ idx' = idx + 1
    /\ UNCHANGED <<pc, srcExists, listing, fault, outExists, out, rendered,
                   jsonData, loaded, di, pages, saved, crashAt>>
    /\ UNCHANGED otherThanPipe

\* The JSON and text reports are written after the walk; open(..., "w")
\* raises when the output folder does not exist.
generate_report_write ==
    /\ pc = "rep_walk"
    /\ idx > Len(listing)
    /\ IF outExists
       THEN /\ jsonData' = report
            /\ out' = WriteFile(WriteFile(out,
                          Entry(JsonName, "file", "reporter", <<>>, FALSE)),
                          Entry(TxtName, "file", "reporter", <<>>, FALSE))
            /\ pc' = "load"
            /\ crashAt' = crashAt
       ELSE /\ pc' = "crashed"
            /\ crashAt' = "rep_write"
            /\ UNCHANGED <<jsonData, out>>
    /\ UNCHANGED <<srcExists, listing, fault, outExists, idx, rendered, log,
                   report, loaded, di, pages, saved>>
    /\ UNCHANGED otherThanPipe

\* ------------------------------------------------------- Document Creator
\* load_metadata_from_json, and main's "if loaded_data:" (an empty dict
\* is falsy, so is None).
load_metadata_from_json ==
    /\ pc = "load"
    /\ IF ~PathExists(out, JsonName)
       THEN /\ log' = Append(log, <<"Error: JSON report file not found">>)
            /\ loaded' = <<>>
            /\ pc' = "done"
       ELSE /\ log' = Append(log, <<"Successfully loaded metadata">>)
            /\ loaded' = jsonData
            /\ pc' = IF jsonData # <<>> THEN "doc_check" ELSE "done"
    /\ UNCHANGED <<srcExists, listing, fault, outExists, out, idx, rendered,
                   report, jsonData, di, pages, saved, crashAt>>
    /\ UNCHANGED otherThanPipe

create_word_document_start ==
    /\ pc = "doc_check"
    /\ IF ~outExists
       THEN /\ log' = Append(log, <<"Error: Media folder not found">>)
            /\ pc' = "done"
            /\ di' = di
       ELSE /\ log' = Append(log, <<"Creating Word document...">>)
            /\ pc' = "doc"
            /\ di' = 1
    /\ UNCHANGED <<srcExists, listing, fault, outExists, out, idx, rendered,
                   report, jsonData, loaded, pages, saved, crashAt>>
    /\ UNCHANGED otherThanPipe

PEOPLE_TO_ADD == "Jose Andres and Axel"

\* InjectPeople without the test on the stored value: People is
\* overwritten whenever a default is configured.
InjectPeopleAlways(rec, people_in_photo) ==
    IF people_in_photo # ""
    THEN [rec EXCEPT !.People = people_in_photo]
    ELSE rec

\* "if metadata.get('People') == 'NULL' and people_in_photo:
\*      metadata['People'] = people_in_photo"
InjectPeople(rec, people_in_photo) ==
    IF rec.People = "NULL" /\ people_in_photo # ""
    THEN [rec EXCEPT !.People = people_in_photo]
    ELSE rec

\* The entry of the output folder with this name.
EntryOf(entries, name) == CHOOSE e \in entries : e.name = name

\* Image.open(path) succeeds on a regular file holding an image; a
\* directory raises (IsADirectoryError / PermissionError).
Opens(entries, name) == EntryOf(entries, name).kind = "file"

\* extract_frame_from_video: True when the capture opens and a frame is
\* read, False otherwise (its own exceptions are caught inside).
ExtractsFrame(entries, name) == EntryOf(entries, name).kind = "file"

\* One iteration of create_word_document's loop over metadata_dict.
create_word_document_entry ==
    /\ pc = "doc"
    /\ di \in DOMAIN loaded
    /\ LET key == loaded[di][1]
           metadata == loaded[di][2]
           is_video == EndsWith(LowerName(metadata.OriginalFileName), DocVideoExts)
       IN  CASE ~PathExists(out, key) ->
                  /\ log' = Append(log, <<"Warning: Media file not in folder. Skipping.", key>>)
                  /\ di' = di + 1
                  /\ UNCHANGED <<loaded, pages, pc, crashAt>>
             [] PathExists(out, key) /\ is_video /\ ~ExtractsFrame(out, key) ->
                  /\ log' = Append(log, <<"Could not extract a frame from video. Skipping.", key>>)
                  /\ di' = di + 1
                  /\ UNCHANGED <<loaded, pages, pc, crashAt>>
             [] PathExists(out, key) /\ ~is_video /\ ~Opens(out, key) ->
                  \* Image.open raises after People was injected and the
                  \* heading added; nothing catches it
                  /\ loaded' = [loaded EXCEPT ![di] =
                                   <<key, InjectPeople(metadata, PEOPLE_TO_ADD)>>]
                  /\ log' = Append(log, <<"Adding to document", metadata.OriginalFileName>>)
                  /\ pc' = "crashed"
                  /\ crashAt' = "doc_entry"
                  /\ UNCHANGED <<di, pages>>
             [] OTHER ->
                  /\ loaded' = [loaded EXCEPT ![di] =
                                   <<key, InjectPeople(metadata, PEOPLE_TO_ADD)>>]
                  /\ log' = Append(log, <<"Adding to document", metadata.OriginalFileName>>)
                  /\ pages' = Append(pages, key)
                  /\ di' = di + 1
                  /\ UNCHANGED <<pc, crashAt>>
    /\ UNCHANGED <<srcExists, listing, fault, outExists, out, idx, rendered,
                   report, jsonData, saved>>
    /\ UNCHANGED otherThanPipe

\* document.save inside its own try/except.
create_word_document_save ==
    /\ pc = "doc"
    /\ di > Len(loaded)
    /\ saved' = TRUE
    /\ pc' = "done"
    /\ UNCHANGED <<srcExists, listing, fault, outExists, out, idx, rendered, log,
                   report, jsonData, loaded, di, pages, crashAt>>
    /\ UNCHANGED otherThanPipe

\* main.py's last line: print("\nAll tasks complete.")
all_tasks_complete ==
    /\ pc = "done"
    /\ log' = Append(log, <<"All tasks complete.">>)
    /\ pc' = "complete"
    /\ UNCHANGED <<srcExists, listing, fault, outExists, out, idx, rendered,
                   report, jsonData, loaded, di, pages, saved, crashAt>>
    /\ UNCHANGED otherThanPipe

PipeIdle ==
    /\ pc = "idle"
    /\ srcExists = FALSE
    /\ listing = <<>>
    /\ fault = <<>>
    /\ outExists = FALSE
    /\ out = {}
    /\ idx = 0
    /\ rendered = <<>>
    /\ log = <<>>
    /\ report = <<>>
    /\ jsonData = <<>>
    /\ loaded = <<>>
    /\ di = 0
    /\ pages = <<>>
    /\ saved = FALSE
    /\ crashAt = "none"

Init == PipeInit /\ IdleButPipe

Next ==
    \/ folder_clearer
    \/ process_folder_source_missing
    \/ process_folder_makedirs
    \/ timestamp_image
    \/ timestamp_video
    \/ process_folder_skip
    \/ process_folder_done
    \/ generate_report_listdir_raises
    \/ generate_report_start
    \/ generate_report_skip
    \/ generate_report_file
    \/ generate_report_write
    \/ load_metadata_from_json
    \/ create_word_document_start
    \/ create_word_document_entry
    \/ create_word_document_save
    \/ all_tasks_complete

Spec == Init /\ [][Next]_vars

\* ------------------------------------- timestamp_video's frame loop
\* A frame is [id, stroke, text]: the id-th frame decoded, and whether
\* process_video_frame has drawn the dark stroke and the text on it.
Frame(i) == [id |-> i, stroke |-> FALSE, text |-> FALSE]

VidInit ==
    /\ vpc = "read"
    /\ batch_size \in 1..MaxBatch
    /\ total \in 0..MaxFrames
    /\ nread = 0
    /\ frames_batch = <<>>
    /\ tasks = <<>>
    /\ yielded = {}
    /\ written = <<>>
    /\ overtook = FALSE

\* executor.map(process_video_frame, frames_batch, ...): one task per
\* frame, none started yet.
Submit(batch) == [i \in DOMAIN batch |-> "queued"]

\* cap.read() returns a frame: it joins the batch, and a full batch is
\* mapped.
read_frame ==
    /\ vpc = "read"
    /\ nread < total
    /\ nread' = nread + 1
    /\ LET batch == Append(frames_batch, Frame(nread + 1))
       IN  /\ frames_batch' = batch
           /\ IF Len(batch) = batch_size
              THEN /\ tasks' = Submit(batch)
                   /\ vpc' = "map"
              ELSE /\ tasks' = tasks
                   /\ vpc' = vpc
    /\ yielded' = {}
    /\ UNCHANGED <<batch_size, total, written, overtook>>
    /\ UNCHANGED otherThanVid

\* cap.read() returns ret = False: the last, partial batch is mapped if
\* there is one, and the loop breaks.
read_end ==
    /\ vpc = "read"
    /\ nread = total
    /\ IF frames_batch # <<>>
       THEN /\ tasks' = Submit(frames_batch)
            /\ vpc' = "map_last"
       ELSE /\ tasks' = tasks
            /\ vpc' = "released"
    /\ yielded' = {}
    /\ UNCHANGED <<batch_size, total, nread, frames_batch, written, overtook>>
    /\ UNCHANGED otherThanVid

\* A worker thread's progress on task i: the two cv2.putText calls of
\* process_video_frame, on the frame itself, then the return. Workers run
\* in any interleaving.
process_video_frame(i) ==
    /\ vpc \in {"map", "map_last"}
    /\ i \in DOMAIN tasks
    /\ tasks[i] # "returned"
    /\ CASE tasks[i] = "queued" ->
              /\ frames_batch' = [frames_batch EXCEPT ![i].stroke = TRUE]
              /\ tasks' = [tasks EXCEPT ![i] = "stroked"]
              /\ overtook' = overtook
         [] tasks[i] = "stroked" ->
              /\ frames_batch' = [frames_batch EXCEPT ![i].text = TRUE]
              /\ tasks' = [tasks EXCEPT ![i] = "returned"]
              /\ overtook' = (overtook \/ \E j \in 1..(i - 1) : tasks[j] # "returned")
    /\ UNCHANGED <<vpc, batch_size, total, nread, yielded, written>>
    /\ UNCHANGED otherThanVid

\* MapNextResult had the loop used concurrent.futures.as_completed:
\* results are taken as they complete, the latest submitted first.
CompletedNextResult(tsk, done) ==
    LET ready == {i \in DOMAIN tsk \ done : tsk[i] = "returned"}
        left == DOMAIN tsk \ done
    IN  IF ready # {}
        THEN CHOOSE i \in ready : \A j \in ready : j <= i
        ELSE CHOOSE i \in left : \A j \in left : i <= j

\* The task whose result executor.map's iterator yields next: the
\* earliest submitted one not yet yielded, whatever has completed.
MapNextResult(tsk, done) ==
    LET left == DOMAIN tsk \ done
    IN  CHOOSE i \in left : \A j \in left : i <= j

\* "for proc_frame in processed_frames: out.write(proc_frame)": the
\* iterator blocks until its next result is there.
write_frame ==
    /\ vpc \in {"map", "map_last"}
    /\ yielded # DOMAIN tasks
    /\ LET i == MapNextResult(tasks, yielded)
       IN  /\ tasks[i] = "returned"
           /\ written' = Append(written, frames_batch[i])
           /\ yielded' = yielded \cup {i}
    /\ UNCHANGED <<vpc, batch_size, total, nread, frames_batch, tasks, overtook>>
    /\ UNCHANGED otherThanVid

\* The batch is written: "frames_batch = []" and back to reading, or,
\* after the last batch, "break" and the releases.
batch_done ==
    /\ vpc \in {"map", "map_last"}
    /\ yielded = DOMAIN tasks
    /\ IF vpc = "map"
       THEN /\ frames_batch' = <<>>
            /\ vpc' = "read"
       ELSE /\ frames_batch' = frames_batch
            /\ vpc' = "released"
    /\ tasks' = <<>>
    /\ yielded' = {}
    /\ UNCHANGED <<batch_size, total, nread, written, overtook>>
    /\ UNCHANGED otherThanVid

VidNext ==
    \/ read_frame
    \/ read_end
    \/ \E i \in 1..MaxBatch : process_video_frame(i)
    \/ write_frame
    \/ batch_done

InitVideo == VidInit /\ PipeIdle /\ MetaIdle /\ ExifIdle /\ DmsIdle /\ FontIdle /\ GeoIdle

SpecVideo == InitVideo /\ [][VidNext]_vars

\* C2: the frames written to the encoder are the frames decoded from the
\* input, in the same order and each exactly once, the last partial batch
\* included, each with stroke and text drawn, however the workers
\* interleave.
C2_FramesWrittenInDecodeOrder ==
    /\ \A k \in DOMAIN written :
          written[k] = [id |-> k, stroke |-> TRUE, text |-> TRUE]
    /\ Len(written) <= nread
    /\ vpc = "released" => Len(written) = total

\* A finished video with full batches and a last partial one, in which a
\* worker finished a frame before an earlier frame of its batch.
C2_Witness ==
    /\ vpc = "released"
    /\ batch_size > 1
    /\ total > batch_size
    /\ total % batch_size # 0
    /\ overtook
    /\ Len(written) = total

\* ------------------------------------------------- get_creation_date
\* Python's None.
None == <<"None">>

\* The tokens of a DateTimeOriginal value: "e" a group of digits, ":" and
\* " " themselves, "\xff" a byte that is not UTF-8.
DtoTokens == {"e", ":", " ", "\\xff"}

RECURSIVE TokenSeqs(_)
TokenSeqs(k) ==
    IF k = 0 THEN {<<>>}
    ELSE LET shorter == TokenSeqs(k - 1)
         IN  shorter \cup
             {Append(s, t) : s \in {u \in shorter : Len(u) = k - 1},
                             t \in DtoTokens}

\* A DateTimeOriginal as EXIF defines it: "YYYY:MM:DD HH:MM:SS".
WellFormedDto == <<"e", ":", "e", ":", "e", " ", "e", ":", "e", ":", "e">>

\* The DateTimeOriginal values tried: the well-formed one and every
\* short sequence of tokens.
DtoValues == TokenSeqs(MaxDtoLen) \cup {WellFormedDto}

\* datetime.strftime('%Y-%m-%d %H:%M:%S'), d standing for the digits of
\* the datetime it formats.
Strftime(d) == <<d, "-", d, "-", d, " ", d, ":", d, ":", d>>

\* s.split(' '): the pieces between single spaces, empty ones included.
RECURSIVE SplitSpace(_)
SplitSpace(s) ==
    IF \A i \in DOMAIN s : s[i] # " " THEN <<s>>
    ELSE LET first == CHOOSE i \in DOMAIN s :
                         s[i] = " " /\ \A j \in 1..(i - 1) : s[j] # " "
         IN  <<SubSeq(s, 1, first - 1)>> \o SplitSpace(SubSeq(s, first + 1, Len(s)))

\* s.replace(':', '-')
ReplaceColon(s) == [i \in DOMAIN s |-> IF s[i] = ":" THEN "-" ELSE s[i]]

Return(v) == [tag |-> "return", val |-> v]
Raise == [tag |-> "raise", val |-> <<>>]
FallThrough == [tag |-> "next", val |-> <<>>]

\* Lines 15-22: the video branch with its own try/except, which prints.
VideoStep(k, vm) ==
    IF k = "video" /\ vm = "date" THEN Return(Strftime("v")) ELSE FallThrough

\* Lines 26-43, the body of the second try.
ImageTry(el, d) ==
    CASE el = "raises" -> Raise
      [] el \in {"none", "nodto"} -> FallThrough
      [] OTHER ->
           IF \E i \in DOMAIN d : d[i] = "\\xff" THEN Raise  \* .decode('utf-8')
           ELSE LET parts == SplitSpace(d)
                IN  IF Len(parts) # 2 THEN Raise  \* date_part, time_part = ...
                    ELSE Return(ReplaceColon(parts[1]) \o <<" ">> \o parts[2])

\* ImageExcept without the except clause: the exception is not caught.
ImageExceptReraises(r) == r

\* Lines 45-47: "except Exception: pass".
ImageExcept(r) == IF r.tag = "raise" THEN FallThrough ELSE r

\* Lines 50-56: the modification time, or None after a printed message.
FallbackStep(ok) == IF ok THEN Return(Strftime("m")) ELSE Return(None)

GetCreationDate(k, vm, el, d, ok) ==
    LET v == VideoStep(k, vm)
    IN  IF v.tag = "return" THEN v
        ELSE LET e == ImageExcept(ImageTry(el, d))
             IN  IF e.tag # "next" THEN e ELSE FallbackStep(ok)

MetaInit ==
    /\ mpc = "call"
    /\ kind \in {"video", "heic", "image"}
    /\ videoMeta \in {"raises", "none", "date"}
    /\ (kind # "video" => videoMeta = "none")
    /\ exifLoad \in {"raises", "none", "nodto", "dto"}
    /\ dto \in DtoValues
    /\ (exifLoad # "dto" => dto = <<>>)
    /\ mtimeOK \in BOOLEAN
    /\ result = <<>>

get_creation_date ==
    /\ mpc = "call"
    /\ LET r == GetCreationDate(kind, videoMeta, exifLoad, dto, mtimeOK)
       IN  /\ mpc' = IF r.tag = "raise" THEN "raised" ELSE "returned"
           /\ result' = r.val
    /\ UNCHANGED <<kind, videoMeta, exifLoad, dto, mtimeOK>>
    /\ UNCHANGED otherThanMeta

InitMeta == MetaInit /\ PipeIdle /\ VidIdle /\ ExifIdle /\ DmsIdle /\ FontIdle /\ GeoIdle

SpecMeta == InitMeta /\ [][get_creation_date]_vars

\* The format-specific extraction fails: no video creation date, and no
\* usable EXIF DateTimeOriginal (none, undecodable, or not two pieces
\* around one space).
ExtractionFails ==
    /\ ~(kind = "video" /\ videoMeta = "date")
    /\ \/ exifLoad # "dto"
       \/ \E i \in DOMAIN dto : dto[i] = "\\xff"
       \/ Cardinality({i \in DOMAIN dto : dto[i] = " "}) # 1

\* C8: get_creation_date never raises; when the format-specific
\* extraction fails it returns the modification time formatted as
\* YYYY-MM-DD HH:MM:SS, and it returns None only if the modification time
\* is unavailable too.
C8_FallsBackToMtimeNeverRaises ==
    /\ mpc # "raised"
    /\ mpc = "returned" =>
         /\ result = None => ~mtimeOK
         /\ ExtractionFails /\ mtimeOK => result = Strftime("m")
         /\ ExtractionFails /\ ~mtimeOK => result = None

\* C8 as first stated: whenever the DateTimeOriginal of an image is
\* malformed (anything but "YYYY:MM:DD HH:MM:SS"), the call falls back to
\* the modification time.
C8_MalformedDtoFallsBack ==
    (mpc = "returned" /\ kind # "video" /\ exifLoad = "dto"
        /\ dto # WellFormedDto /\ mtimeOK)
      => result = Strftime("m")

\* A call on an image whose DateTimeOriginal has no space in it, answered
\* with the modification time.
C8_Witness ==
    /\ mpc = "returned"
    /\ kind = "image"
    /\ exifLoad = "dto"
    /\ dto = <<"e", ":", "e">>
    /\ mtimeOK
    /\ result = Strftime("m")

\* ------------------------------------- the Reporter's record of an image
ExifTags == {"Make", "Model", "FocalLength", "FNumber", "ExposureTime",
             "ISOSpeedRatings", "Flash", "UserComment", "ImageDescription",
             "XPComment", "GPSLatitude", "GPSLongitude", "GPSLatitudeRef"}

\* The values a tag may hold, after get_exif's decoding of bytes; a
\* rational is <<numerator, denominator>>, a DMS triple three of them.
ExifValues ==
    [Make : {"canon"}, Model : {"eos"},
     FocalLength : {<<50, 1>>, <<0, 0>>},
     FNumber : {<<28, 10>>},
     ExposureTime : {<<1, 100>>},
     ISOSpeedRatings : {100},
     Flash : {1, 16},
     UserComment : {"hi", ""},
     ImageDescription : {"sea"},
     XPComment : {"xp"},
     GPSLatitude : {<<<<40, 1>>, <<30, 1>>, <<0, 1>>>>},
     GPSLongitude : {<<<<3, 1>>, <<0, 1>>, <<18, 1>>>>},
     GPSLatitudeRef : {"S"}]

\* The values of the tags absent from the file are never read: one
\* stand-in each, so that equal files are one state.
ExifDefaults ==
    [Make |-> "canon", Model |-> "eos", FocalLength |-> <<50, 1>>,
     FNumber |-> <<28, 10>>, ExposureTime |-> <<1, 100>>,
     ISOSpeedRatings |-> 100, Flash |-> 1, UserComment |-> "hi",
     ImageDescription |-> "sea", XPComment |-> "xp",
     GPSLatitude |-> <<<<40, 1>>, <<30, 1>>, <<0, 1>>>>,
     GPSLongitude |-> <<<<3, 1>>, <<0, 1>>, <<18, 1>>>>,
     GPSLatitudeRef |-> "S"]

ExifInit ==
    /\ epc = "file"
    /\ present \in SUBSET ExifTags
    /\ exif \in ExifValues
    /\ \A t \in ExifTags \ present : exif[t] = ExifDefaults[t]
    /\ geo \in {"address", "none", "raises"}
    /\ ({"GPSLatitude", "GPSLongitude"} \subseteq present \/ geo = "none")
    /\ record = <<>>

\* get_exif(ifd, tag, default): the tag's value, the default on KeyError.
get_exif(tags, values, tag, default) ==
    IF tag \in tags THEN values[tag] ELSE default

\* f"{x:.1f}" and f"{x:.4f}" of the rational num/den >= 0 (den > 0),
\* rounding half up.
RECURSIVE Pow10(_)
Pow10(k) == IF k = 0 THEN 1 ELSE 10 * Pow10(k - 1)

RECURSIVE ZeroPad(_, _)
ZeroPad(str, width) == IF Len(str) >= width THEN str ELSE ZeroPad("0" \o str, width)

FormatFixed(num, den, places) ==
    LET neg == num < 0
        mag == IF neg THEN -num ELSE num
        scaled == (mag \div den) * Pow10(places)
                  + (2 * (mag % den) * Pow10(places) + den) \div (2 * den)
    IN  (IF neg /\ scaled > 0 THEN "-" ELSE "")
        \o ToString(scaled \div Pow10(places)) \o "."
        \o ZeroPad(ToString(scaled % Pow10(places)), places)

\* dms_to_dd as the rational <<numerator, denominator>>.
\* Exact arithmetic on rationals <<numerator, denominator>>, kept in lowest
\* terms with a positive denominator; they stand for the floats of the code.
Abs(n) == IF n < 0 THEN -n ELSE n

RECURSIVE GCD(_, _)
GCD(a, b) == IF b = 0 THEN a ELSE GCD(b, a % b)

Rat(n, d) ==
    LET g == GCD(Abs(n), Abs(d))
        sgn == IF d < 0 THEN -1 ELSE 1
    IN  <<(sgn * n) \div g, (sgn * d) \div g>>

RatAdd(x, y) == Rat(x[1] * y[2] + y[1] * x[2], x[2] * y[2])
RatDivBy(x, k) == Rat(x[1], x[2] * k)
RatTimes(x, k) == Rat(x[1] * k, x[2])

\* dms_to_dd without "if ref in ['S', 'W']: dd *= -1".
dms_to_dd_unsigned(dms, ref) ==
    LET degrees == Rat(dms[1][1], dms[1][2])
        minutes == RatDivBy(Rat(dms[2][1], dms[2][2]), 60)
        seconds == RatDivBy(Rat(dms[3][1], dms[3][2]), 3600)
    IN  RatAdd(RatAdd(degrees, minutes), seconds)

dms_to_dd(dms, ref) ==
    LET degrees == Rat(dms[1][1], dms[1][2])
        minutes == RatDivBy(Rat(dms[2][1], dms[2][2]), 60)
        seconds == RatDivBy(Rat(dms[3][1], dms[3][2]), 3600)
        dd == RatAdd(RatAdd(degrees, minutes), seconds)
    IN  IF ref \in {"S", "W"} THEN RatTimes(dd, -1) ELSE dd

\* The first of UserComment, ImageDescription, XPComment that is a
\* non-empty string other than "NULL".
CommentOf(tags, values) ==
    LET uc == get_exif(tags, values, "UserComment", "NULL")
        idn == get_exif(tags, values, "ImageDescription", "NULL")
        xp == get_exif(tags, values, "XPComment", "NULL")
    IN  IF uc # "" /\ uc # "NULL" THEN uc
        ELSE IF idn # "" /\ idn # "NULL" THEN idn
        ELSE IF xp # "" /\ xp # "NULL" THEN xp
        ELSE "NULL"

\* Lines 106-165: the record of one image. An integer JSON value is
\* written as its decimal text.
ExifRecord(tags, values, geocoded) ==
    LET focal_length_raw == get_exif(tags, values, "FocalLength", <<0, 1>>)
        aperture_raw == get_exif(tags, values, "FNumber", <<0, 1>>)
        shutter_raw == get_exif(tags, values, "ExposureTime", <<0, 1>>)
        flash_raw == get_exif(tags, values, "Flash", 0)
        hasGps == "GPSLatitude" \in tags /\ "GPSLongitude" \in tags
        lat_ref == IF "GPSLatitudeRef" \in tags THEN values["GPSLatitudeRef"] ELSE "N"
        lat_dd == dms_to_dd(values["GPSLatitude"], lat_ref)
        lon_dd == dms_to_dd(values["GPSLongitude"], "E")
    IN  [People |-> "NULL",
         DeviceMake |-> get_exif(tags, values, "Make", "NULL"),
         DeviceModel |-> get_exif(tags, values, "Model", "NULL"),
         FocalLength |-> IF focal_length_raw[2] > 0
                         THEN ToString(focal_length_raw[1] \div focal_length_raw[2]) \o "mm"
                         ELSE "NULL",
         Aperture |-> IF aperture_raw[2] > 0
                      THEN "f/" \o FormatFixed(aperture_raw[1], aperture_raw[2], 1)
                      ELSE "NULL",
         ShutterSpeed |-> IF shutter_raw[1] > 0
                          THEN "1/" \o ToString(shutter_raw[2] \div shutter_raw[1]) \o "s"
                          ELSE "NULL",
         ISO |-> IF "ISOSpeedRatings" \in tags
                 THEN ToString(values["ISOSpeedRatings"]) ELSE "NULL",
         Flash |-> IF flash_raw % 2 = 1 THEN "Flash Fired" ELSE "No Flash",
         Comments |-> CommentOf(tags, values),
         GPS_Location |-> IF hasGps
                          THEN FormatFixed(lat_dd[1], lat_dd[2], 4) \o ", "
                               \o FormatFixed(lon_dd[1], lon_dd[2], 4)
                          ELSE "NULL",
         Location_Address |-> IF ~hasGps THEN "NULL"
                              ELSE CASE geocoded = "address" -> "an address"
                                     [] geocoded = "none" -> "Address not found"
                                     [] OTHER -> "Geocoding failed: reason"]

generate_report_record ==
    /\ epc = "file"
    /\ record' = ExifRecord(present, exif, geo)
    /\ epc' = "recorded"
    /\ UNCHANGED <<present, exif, geo>>
    /\ UNCHANGED otherThanExif

InitExif == ExifInit /\ PipeIdle /\ VidIdle /\ MetaIdle /\ DmsIdle /\ FontIdle /\ GeoIdle

SpecExif == InitExif /\ [][generate_report_record]_vars

\* The EXIF tag or tags each field of a record is read from.
TagsOfField ==
    [DeviceMake |-> {"Make"}, DeviceModel |-> {"Model"},
     FocalLength |-> {"FocalLength"}, Aperture |-> {"FNumber"},
     ShutterSpeed |-> {"ExposureTime"}, ISO |-> {"ISOSpeedRatings"},
     Flash |-> {"Flash"},
     Comments |-> {"UserComment", "ImageDescription", "XPComment"},
     GPS_Location |-> {"GPSLatitude", "GPSLongitude"},
     Location_Address |-> {"GPSLatitude", "GPSLongitude"}]

\* C9: in every record written by the Reporter, each field whose EXIF
\* tag is not present in the source file holds "NULL".
C9_AbsentTagGivesNull ==
    epc = "recorded" =>
        \A f \in DOMAIN TagsOfField :
            TagsOfField[f] \cap present = {} => record[f] = "NULL"

\* ------------------------------------- doc_creator.py run as a script
\* "if __name__ == '__main__'" of doc_creator.py: the JSON report found in
\* the media folder is loaded and the document built from it. The report
\* is whatever an earlier run left there, edited by hand or not, so People
\* may already hold a name.
DocKeys == {<<"a", ".", "png">>, <<"a", "1", ".", "png">>, <<"a", ".", "mp4">>}

DocRecords ==
    [OriginalFileName : {<<"a", ".", "JPG">>, <<"a", ".", "mov">>},
     Timestamp : {"date", "NULL"},
     People : {"NULL", "Ana"}]

RECURSIVE DocReports(_)
DocReports(k) ==
    IF k = 0 THEN {<<>>}
    ELSE LET shorter == DocReports(k - 1)
         IN  shorter \cup
             {Append(s, <<key, r>>) :
                  s \in {t \in shorter : Len(t) = k - 1},
                  key \in DocKeys, r \in DocRecords}

DistinctKeys(rep) == \A i, j \in DOMAIN rep : i # j => rep[i][1] # rep[j][1]

\* The media folder: the report, and each key absent, a file or a directory.
DocFolders ==
    {{}} \cup
    { {Entry(JsonName, "file", "old", <<>>, FALSE)}
      \cup {Entry(key, kindOf[key], "old", <<>>, FALSE) :
                key \in {x \in DocKeys : kindOf[x] # "absent"}} :
      kindOf \in [DocKeys -> {"absent", "file", "dir"}] }

DocInit ==
    /\ pc = "load"
    /\ srcExists = FALSE
    /\ listing = <<>>
    /\ fault = <<>>
    /\ outExists = TRUE
    /\ out \in DocFolders
    /\ idx = 0
    /\ rendered = <<>>
    /\ log = <<>>
    /\ report = <<>>
    /\ jsonData \in {rep \in DocReports(MaxFiles) : DistinctKeys(rep)}
    /\ loaded = <<>>
    /\ di = 0
    /\ pages = <<>>
    /\ saved = FALSE
    /\ crashAt = "none"

DocNext ==
    \/ load_metadata_from_json
    \/ create_word_document_start
    \/ create_word_document_entry
    \/ create_word_document_save

InitDoc == DocInit /\ IdleButPipe

SpecDoc == InitDoc /\ [][DocNext]_vars

\* ------------------------------------------------------------ dms_to_dd
Refs == {"N", "S", "E", "W"}

DmsRationals ==
    {<<n, d>> : n \in (0..MaxDmsNum) \cup {40}, d \in (1..MaxDmsDen) \cup {-1}}

DmsTriples == {<<deg, mn, sec>> : deg \in DmsRationals, mn \in DmsRationals,
                                  sec \in DmsRationals}

DmsInit ==
    /\ gps_dms \in DmsTriples
    /\ dd_of = [r \in Refs |-> <<>>]

\* dd = dms_to_dd(gps_dms, r), for a reference letter not yet tried
dms_to_dd_call ==
    /\ gps_dms # <<>>
    /\ \E r \in Refs :
          /\ dd_of[r] = <<>>
          /\ dd_of' = [dd_of EXCEPT ![r] = dms_to_dd(gps_dms, r)]
    /\ UNCHANGED gps_dms
    /\ UNCHANGED otherThanDms

InitDms == DmsInit /\ PipeIdle /\ VidIdle /\ MetaIdle /\ ExifIdle /\ FontIdle /\ GeoIdle

SpecDms == InitDms /\ [][dms_to_dd_call]_vars

\* ------------------------------------------- timestamp_image's font size
\* config.py
FONT_WIDTH_RATIO == 35
MIN_FONT_SIZE == 40

Max(a, b) == IF a >= b THEN a ELSE b

\* "font_size = int(longest_side / FONT_WIDTH_RATIO)", without the floor.
FontSizeUnfloored(w, h) ==
    LET longest_side == Max(w, h)
    IN  longest_side \div FONT_WIDTH_RATIO

\* longest_side = max(image.width, image.height)
\* font_size = max(MIN_FONT_SIZE, int(longest_side / FONT_WIDTH_RATIO))
\* (int() truncates, and the quotient of two positive numbers is positive)
FontSizeOf(w, h) ==
    LET longest_side == Max(w, h)
    IN  Max(MIN_FONT_SIZE, longest_side \div FONT_WIDTH_RATIO)

\* Heights on both sides of FONT_WIDTH_RATIO * MIN_FONT_SIZE.
SampleHeights ==
    {1, FONT_WIDTH_RATIO * MIN_FONT_SIZE - 1, FONT_WIDTH_RATIO * MIN_FONT_SIZE,
     FONT_WIDTH_RATIO * (MIN_FONT_SIZE + 1), 3 * FONT_WIDTH_RATIO * MIN_FONT_SIZE}

FontInit ==
    /\ image_width \in 1..MaxSide
    /\ image_height \in SampleHeights
    /\ font_size = 0

compute_font_size ==
    /\ image_width > 0
    /\ font_size = 0
    /\ font_size' = FontSizeOf(image_width, image_height)
    /\ UNCHANGED <<image_width, image_height>>
    /\ UNCHANGED otherThanFont

InitFont == FontInit /\ PipeIdle /\ VidIdle /\ MetaIdle /\ ExifIdle /\ DmsIdle /\ GeoIdle

SpecFont == InitFont /\ [][compute_font_size]_vars

\* ------------------------------------------------------------- Geocoder
\* RateLimiter(geolocator.reverse, min_delay_seconds=1)
min_delay_seconds == 1

\* What geocode((lat, lon), language='en') does: it returns a Location, it
\* returns None, or an exception leaves it.
GeocodeOutcomes == {"address", "none", "raises"}

Answer(caller, how, value) == [caller |-> caller, how |-> how, value |-> value]

\* A RateLimiter whose previous call went through at time last (-1: no call
\* yet) lets the next call through at once when min_delay_seconds have
\* passed, and sleeps for the remainder otherwise.
LetThroughAt(last, now) ==
    IF last >= 0 /\ now - last < min_delay_seconds
    THEN last + min_delay_seconds
    ELSE now

tick ==
    /\ clock < MaxClock
    /\ clock' = clock + 1
    /\ UNCHANGED <<last_call, sent, answers>>
    /\ UNCHANGED otherThanGeo

\* get_addr(lat_dd, lon_dd): the RateLimiter is built inside the call, so
\* it has let no call through yet; nothing catches what geocode raises.
get_addr ==
    /\ Len(sent) < MaxCalls
    /\ \E outcome \in GeocodeOutcomes :
          LET at == LetThroughAt(-1, clock)
          IN  /\ clock' = at
              /\ sent' = Append(sent, at)
              /\ answers' = Append(answers,
                   CASE outcome = "address" ->
                          Answer("get_addr", "returned", "an address")
                     [] outcome = "none" ->
                          Answer("get_addr", "returned", "Address not found")
                     [] OTHER ->
                          Answer("get_addr", "raised", "reason"))
    /\ UNCHANGED last_call
    /\ UNCHANGED otherThanGeo

\* The lookup for one file with GPS data in generate_metadata_report: the
\* RateLimiter built before the loop is used, and the call is in a try.
generate_report_geocode ==
    /\ Len(sent) < MaxCalls
    /\ \E outcome \in GeocodeOutcomes :
          LET at == LetThroughAt(last_call, clock)
          IN  /\ clock' = at
              /\ last_call' = at
              /\ sent' = Append(sent, at)
              /\ answers' = Append(answers,
                   CASE outcome = "address" ->
                          Answer("reporter", "returned", "an address")
                     [] outcome = "none" ->
                          Answer("reporter", "returned", "Address not found")
                     [] OTHER ->
                          Answer("reporter", "returned", "Geocoding failed: reason"))
    /\ UNCHANGED otherThanGeo

GeoNext ==
    \/ tick
    \/ get_addr
    \/ generate_report_geocode

InitGeo == GeoIdle /\ PipeIdle /\ VidIdle /\ MetaIdle /\ ExifIdle /\ DmsIdle /\ FontIdle

SpecGeo == InitGeo /\ [][GeoNext]_vars

\* ------------------------------------------------- properties of the run
Range(f) == {f[i] : i \in DOMAIN f}

TimestamperDone == pc \in {"report", "rep_walk", "load", "doc_check", "doc",
                           "done", "complete"} /\ srcExists
ReporterDone == pc \in {"load", "doc_check", "doc", "done", "complete"}
DocumentEnded == (pc \in {"done", "complete"} /\ saved) \/ crashAt = "doc_entry"

\* C1: any two distinct source files rendered in one Timestamper run are
\* written to distinct output file names, so no rendering of the run is
\* overwritten by a later file of the same run.
C1_DistinctOutputNames ==
    \A i, j \in DOMAIN rendered :
        i # j => rendered[i].name # rendered[j].name

\* C3: in the folder walks of the Timestamper and the Reporter an exception
\* raised for one file is caught and logged inside that file's processing:
\* none leaves the walk, and once a walk is over every supported file of
\* the listing was processed (rendered / recorded when nothing is wrong
\* with it, logged when something is).
C3_PerFileExceptionAbortsOnlyThatFile ==
    /\ crashAt \notin {"ts_file", "rep_file"}
    /\ TimestamperDone =>
         \A i \in DOMAIN listing :
            LET n == listing[i]
            IN  /\ (IsImageName(n) \/ IsVideoName(n)) /\ fault[i] = "ok"
                     => \E k \in DOMAIN rendered : rendered[k].src = n
                /\ IsImageName(n) /\ fault[i] \in {"corrupt", "dumpfail"}
                     => <<"Failed to process", n>> \in Range(log)
                /\ ~IsImageName(n) /\ IsVideoName(n) /\ fault[i] = "midfail"
                     => <<"Failed to process video", n>> \in Range(log)
    /\ ReporterDone =>
         \A i \in DOMAIN listing :
            LET n == listing[i]
            IN  ReporterTakes(n) =>
                  IF fault[i] = "corrupt"
                  THEN <<"Could not process metadata for", n>> \in Range(log)
                  ELSE <<"Processed metadata for", n>> \in Range(log)

\* A run in which the first file of the listing raised in both walks and
\* the second one, a sound image, was rendered and recorded.
C3_Witness ==
    /\ ReporterDone
    /\ Len(listing) = 2
    /\ IsImageName(listing[1]) /\ fault[1] = "corrupt"
    /\ IsImageName(listing[2]) /\ fault[2] = "ok"
    /\ \E k \in DOMAIN rendered : rendered[k].src = listing[2]
    /\ \E k \in DOMAIN report : report[k][2].OriginalFileName = listing[2]
    /\ <<"Failed to process", listing[1]>> \in Range(log)

\* C4: no exception raised while assembling one record's page leaves
\* create_word_document.
C4_NoPageExceptionEscapes == crashAt # "doc_entry"

\* C5: with the source folder missing every stage aborts with a message
\* and main reaches "All tasks complete": no stage raises.
C5_MissingSourceCompletes == ~srcExists => pc # "crashed"

\* C6: every report entry whose key names no file of the output folder is
\* skipped without a crash, and every later entry whose file is present
\* still gets its page.
C6_SkipsAbsentAddsLaterPresent ==
    DocumentEnded =>
        \A i \in DOMAIN loaded :
            ~PathExists(out, loaded[i][1]) =>
                /\ loaded[i][1] \notin Range(pages)
                /\ \A j \in DOMAIN loaded :
                      j > i /\ PathExists(out, loaded[j][1])
                        => loaded[j][1] \in Range(pages)

\* C7: when the Timestamper starts writing, the output folder holds no
\* entry left over from an earlier run, subdirectories included (an entry
\* that os.remove failed on set aside).
C7_OutputClearedAtStart ==
    pc = "ts_walk" => \A e \in out : e.origin = "old" => e.locked

\* C10: the Report holds exactly one record per supported source file
\* (image or video) that raised no error.
C10_OneRecordPerSupportedFile ==
    ReporterDone =>
        Len(report) = Cardinality({i \in DOMAIN listing :
                          /\ IsImageName(listing[i]) \/ IsVideoName(listing[i])
                          /\ fault[i] # "corrupt"})

\* C16: once the Timestamper and then the Reporter have run over the source
\* folder, every Report key that names a file the Timestamper wrote names the
\* rendering of the source file in that record's OriginalFileName.
C16_KeyNamesRenderingOfItsSource ==
    ReporterDone =>
        \A i \in DOMAIN report :
            \A e \in out :
                (e.name = report[i][1] /\ e.origin = "ts")
                    => e.src = report[i][2].OriginalFileName

\* C13: from the moment the report is loaded, each record of the Document
\* Creator's metadata_dict equals the record stored in the report, except
\* that People may have become the configured default where the stored
\* value was "NULL"; keys, order, every other field, and every People value
\* that was not "NULL" are as stored.
C13_OnlyNullPeopleReplaced ==
    loaded # <<>> =>
        /\ DOMAIN loaded = DOMAIN jsonData
        /\ \A i \in DOMAIN loaded :
              LET stored == jsonData[i][2]
                  now == loaded[i][2]
              IN  /\ loaded[i][1] = jsonData[i][1]
                  /\ DOMAIN now = DOMAIN stored
                  /\ now.OriginalFileName = stored.OriginalFileName
                  /\ now.Timestamp = stored.Timestamp
                  /\ stored.People # "NULL" => now.People = stored.People
                  /\ now.People # stored.People => now.People = PEOPLE_TO_ADD

C13_Witness ==
    /\ pc = "done"
    /\ saved
    /\ \E i, j \in DOMAIN loaded :
          /\ loaded[i][1] \in Range(pages)
          /\ loaded[j][1] \in Range(pages)
          /\ jsonData[i][2].People = "NULL"
          /\ loaded[i][2].People = PEOPLE_TO_ADD
          /\ jsonData[j][2].People = "Ana"
          /\ loaded[j][2].People = "Ana"

\* degrees + minutes/60 + seconds/3600 over the common denominator
\* 3600 * d1 * d2 * d3, as one fraction in lowest terms.
SumOfParts(t) ==
    Rat(t[1][1] * t[2][2] * t[3][2] * 3600
          + t[2][1] * t[1][2] * t[3][2] * 60
          + t[3][1] * t[1][2] * t[2][2],
        t[1][2] * t[2][2] * t[3][2] * 3600)

\* C14: for a DMS triple with non-zero denominators, dms_to_dd with 'N' or
\* 'E' returns degrees + minutes/60 + seconds/3600, and with 'S' or 'W' the
\* negation of that value; 40 deg 0' 0" gives 40 with 'N' and -40 with 'S'.
C14_SouthWestNegatesNorthEast ==
    gps_dms # <<>> =>
        /\ \A r \in {"N", "E"} :
              dd_of[r] # <<>> => dd_of[r] = SumOfParts(gps_dms)
        /\ \A r \in {"S", "W"} :
              dd_of[r] # <<>> =>
                  /\ dd_of[r][2] = SumOfParts(gps_dms)[2]
                  /\ dd_of[r][1] = 0 - SumOfParts(gps_dms)[1]
        /\ (/\ gps_dms[1][1] = 40 * gps_dms[1][2]
            /\ gps_dms[2][1] = 0
            /\ gps_dms[3][1] = 0) =>
               /\ dd_of["N"] # <<>> => dd_of["N"] = <<40, 1>>
               /\ dd_of["S"] # <<>> => dd_of["S"] = <<-40, 1>>

C14_Witness ==
    /\ gps_dms = <<<<40, 1>>, <<1, 2>>, <<2, -1>>>>
    /\ \A r \in Refs : dd_of[r] # <<>>
    /\ dd_of["S"][1] < 0
    /\ dd_of["E"][1] > 0

\* C15: the font size timestamp_image computes is never below MIN_FONT_SIZE,
\* and it is exactly MIN_FONT_SIZE when the image's longest side is below
\* FONT_WIDTH_RATIO * MIN_FONT_SIZE.
C15_FontSizeFloor ==
    font_size # 0 =>
        /\ font_size >= MIN_FONT_SIZE
        /\ (/\ image_width < FONT_WIDTH_RATIO * MIN_FONT_SIZE
            /\ image_height < FONT_WIDTH_RATIO * MIN_FONT_SIZE)
               => font_size = MIN_FONT_SIZE

C15_Witness ==
    /\ image_width = FONT_WIDTH_RATIO * MIN_FONT_SIZE - 1
    /\ image_height = 1
    /\ font_size = MIN_FONT_SIZE

\* C11: any two consecutive reverse-geocoding requests of the program are
\* at least min_delay_seconds apart, whichever calls sent them.
C11_RequestsSpacedOneSecond ==
    \A i \in DOMAIN sent :
        i > 1 => sent[i] - sent[i - 1] >= min_delay_seconds

\* C12: every geocoding call returns to its caller, and what it returns is
\* an address, "Address not found", or a "Geocoding failed: ..." string.
C12_GeocodingNeverRaises ==
    \A i \in DOMAIN answers :
        /\ answers[i].how = "returned"
        /\ answers[i].value \in {"an address", "Address not found",
                                  "Geocoding failed: reason"}

====
